---- MODULE Spec2Model ----
(***************************************************************************)
(* The format-string parser and the formatter of src/format.rs.            *)
(*                                                                         *)
(* A character is a string token ("{", "Y", ...); "U+E9" is a two-byte     *)
(* character.  Text (&str, String, the MemWriter's buffer) is a sequence   *)
(* of byte tokens: an ASCII character is its own byte, "U+E9" is the bytes *)
(* "C3" "A9".  Option<T> is a sequence of length 0 (None) or 1 (Some).     *)
(***************************************************************************)
EXTENDS Integers, Sequences, FiniteSets

VARIABLES input, iter, fields, anchor, open_brace_position, bit,
          result, dateFormat, when, bits, buf, output, pc

vars == <<input, iter, fields, anchor, open_brace_position, bit,
          result, dateFormat, when, bits, buf, output, pc>>

(***************************************************************************)
(* Bounds of the model.                                                    *)
(***************************************************************************)
MaxLen == 6
MaxChunks == 4
MaxFields == 3

(***************************************************************************)
(* Text.                                                                   *)
(***************************************************************************)
Utf8(c) == IF c = "U+E9" THEN <<"C3", "A9">> ELSE <<c>>

RECURSIVE Bytes(_)
Bytes(s) == IF s = <<>> THEN <<>> ELSE Utf8(Head(s)) \o Bytes(Tail(s))

\* mutant: the character index instead of the byte offset
len_utf8_one(c) == 1

len_utf8(c) == Len(Utf8(c))

RECURSIVE Flatten(_)
Flatten(ss) == IF ss = <<>> THEN <<>> ELSE Head(ss) \o Flatten(Tail(ss))

RECURSIVE from_utf8(_)
from_utf8(b) ==
    IF b = <<>> THEN TRUE
    ELSE IF Head(b) = "C3" THEN Len(b) >= 2 /\ b[2] = "A9" /\ from_utf8(Tail(Tail(b)))
    ELSE Head(b) # "A9" /\ from_utf8(Tail(b))

Digit(d) == <<"0", "1", "2", "3", "4", "5", "6", "7", "8", "9">>[d + 1]

RECURSIVE Digits(_)
Digits(n) == IF n < 10 THEN <<Digit(n)>> ELSE Digits(n \div 10) \o <<Digit(n % 10)>>

Display(n) == IF n < 0 THEN <<"-">> \o Digits(0 - n) ELSE Digits(n)

(***************************************************************************)
(* Field, FormatError, and the date.                                       *)
(***************************************************************************)
Literal(s) == [tag |-> "Literal", s |-> s]
Year == [tag |-> "Year"]
YearOfCentury == [tag |-> "YearOfCentury"]
MonthName(long) == [tag |-> "MonthName", long |-> long]
Day == [tag |-> "Day"]
WeekdayName(long) == [tag |-> "WeekdayName", long |-> long]

InvalidChar(c, afterColon, pos) ==
    [tag |-> "InvalidChar", c |-> c, afterColon |-> afterColon, pos |-> pos]
OpenCurlyBrace(pos) == [tag |-> "OpenCurlyBrace", pos |-> pos]
CloseCurlyBrace(pos) == [tag |-> "CloseCurlyBrace", pos |-> pos]
MissingField(pos) == [tag |-> "MissingField", pos |-> pos]
Ok == [tag |-> "Ok"]

Dates ==
    { [year |-> 2015, month |-> "March",    day |-> 9,  weekday |-> "Monday"],
      [year |-> 1970, month |-> "January",  day |-> 1,  weekday |-> "Thursday"],
      [year |-> 2000, month |-> "December", day |-> 31, weekday |-> "Sunday"] }

year_of_century(date) == date.year % 100

long_month_name(month) ==
    CASE month = "January" -> <<"J", "a", "n", "u", "a", "r", "y">>
      [] month = "February" -> <<"F", "e", "b", "r", "u", "a", "r", "y">>
      [] month = "March" -> <<"M", "a", "r", "c", "h">>
      [] month = "April" -> <<"A", "p", "r", "i", "l">>
      [] month = "May" -> <<"M", "a", "y">>
      [] month = "June" -> <<"J", "u", "n", "e">>
      [] month = "July" -> <<"J", "u", "l", "y">>
      [] month = "August" -> <<"A", "u", "g", "u", "s", "t">>
      [] month = "September" -> <<"S", "e", "p", "t", "e", "m", "b", "e", "r">>
      [] month = "October" -> <<"O", "c", "t", "o", "b", "e", "r">>
      [] month = "November" -> <<"N", "o", "v", "e", "m", "b", "e", "r">>
      [] month = "December" -> <<"D", "e", "c", "e", "m", "b", "e", "r">>

short_month_name(month) ==
    CASE month = "January" -> <<"J", "a", "n">>
      [] month = "February" -> <<"F", "e", "b">>
      [] month = "March" -> <<"M", "a", "r">>
      [] month = "April" -> <<"A", "p", "r">>
      [] month = "May" -> <<"M", "a", "y">>
      [] month = "June" -> <<"J", "u", "n">>
      [] month = "July" -> <<"J", "u", "l">>
      [] month = "August" -> <<"A", "u", "g">>
      [] month = "September" -> <<"S", "e", "p">>
      [] month = "October" -> <<"O", "c", "t">>
      [] month = "November" -> <<"N", "o", "v">>
      [] month = "December" -> <<"D", "e", "c">>

long_day_name(day) ==
    CASE day = "Monday" -> <<"M", "o", "n", "d", "a", "y">>
      [] day = "Tuesday" -> <<"T", "u", "e", "s", "d", "a", "y">>
      [] day = "Wednesday" -> <<"W", "e", "d", "n", "e", "s", "d", "a", "y">>
      [] day = "Thursday" -> <<"T", "h", "u", "r", "s", "d", "a", "y">>
      [] day = "Friday" -> <<"F", "r", "i", "d", "a", "y">>
      [] day = "Saturday" -> <<"S", "a", "t", "u", "r", "d", "a", "y">>
      [] day = "Sunday" -> <<"S", "u", "n", "d", "a", "y">>

short_day_name(day) ==
    CASE day = "Monday" -> <<"M", "o", "n">>
      [] day = "Tuesday" -> <<"T", "u", "e">>
      [] day = "Wednesday" -> <<"W", "e", "d">>
      [] day = "Thursday" -> <<"T", "h", "u">>
      [] day = "Friday" -> <<"F", "r", "i">>
      [] day = "Saturday" -> <<"S", "a", "t">>
      [] day = "Sunday" -> <<"S", "u", "n">>


(***************************************************************************)
(* Field::format: the text one field writes for a date.                    *)
(***************************************************************************)
\* mutant: MonthName(true) written with the short table
Field_format_shortMonth(self, date) ==
    CASE self.tag = "Literal"       -> self.s
      [] self.tag = "Year"          -> Display(date.year)
      [] self.tag = "YearOfCentury" -> Display(year_of_century(date))
      [] self.tag = "MonthName"     -> short_month_name(date.month)
      [] self.tag = "Day"           -> Display(date.day)
      [] self.tag = "WeekdayName"   -> IF self.long THEN long_day_name(date.weekday)
                                                    ELSE short_day_name(date.weekday)

Field_format(self, date) ==
    CASE self.tag = "Literal"       -> self.s
      [] self.tag = "Year"          -> Display(date.year)
      [] self.tag = "YearOfCentury" -> Display(year_of_century(date))
      [] self.tag = "MonthName"     -> IF self.long THEN long_month_name(date.month)
                                                    ELSE short_month_name(date.month)
      [] self.tag = "Day"           -> Display(date.day)
      [] self.tag = "WeekdayName"   -> IF self.long THEN long_day_name(date.weekday)
                                                    ELSE short_day_name(date.weekday)

(***************************************************************************)
(* FormatParser: the char_indices iterator and the slices of the input.    *)
(***************************************************************************)
HasNext(it) == it.i < Len(input)
NextPos(it) == it.off
NextChar(it) == input[it.i + 1]
Advance(it) == [i |-> it.i + 1, off |-> it.off + len_utf8(input[it.i + 1])]

slice(from, to) == SubSeq(Bytes(input), from + 1, to)
slice_from(from) == SubSeq(Bytes(input), from + 1, Len(Bytes(input)))

Kinds == {"Y", "y", "M", "D", "E"}

\* mutant: 'D' gives Year
bitlet_dayAsYear(c) ==
    CASE c = "Y" -> Year
      [] c = "y" -> YearOfCentury
      [] c = "M" -> MonthName(TRUE)
      [] c = "D" -> Year
      [] c = "E" -> WeekdayName(TRUE)

\* mutant: 'M' gives the short month name
bitlet_shortMonth(c) ==
    CASE c = "Y" -> Year
      [] c = "y" -> YearOfCentury
      [] c = "M" -> MonthName(FALSE)
      [] c = "D" -> Day
      [] c = "E" -> WeekdayName(TRUE)

bitlet(c) ==
    CASE c = "Y" -> Year
      [] c = "y" -> YearOfCentury
      [] c = "M" -> MonthName(TRUE)
      [] c = "D" -> Day
      [] c = "E" -> WeekdayName(TRUE)

(***************************************************************************)
(* The inputs: every string over Alphabet of at most MaxLen characters,    *)
(* every concatenation of at most MaxChunks chunks (a directive or a       *)
(* single character), and,        for DateFormat values built by the caller *)
(* from the public `fields`, every sequence of at most MaxFields fields.   *)
(***************************************************************************)
Alphabet == {"{", "}", ":", "Y", "M", "U+E9"}

Chunks ==
    { <<"{", ":", k, "}">> : k \in Kinds }
        \cup { <<"-">>, <<"U+E9">>, <<"{">>, <<"}">>, <<":">> }

SeqsUpTo(S, n) == UNION { [1..m -> S] : m \in 0..n }

Inputs == SeqsUpTo(Alphabet, MaxLen) \cup { Flatten(cs) : cs \in SeqsUpTo(Chunks, MaxChunks) }

FieldValues ==
    { Literal(<<"-">>), Literal(<<"C3", "A9">>), Literal(<<>>),
      Year, YearOfCentury, Day,
      MonthName(TRUE), MonthName(FALSE), WeekdayName(TRUE), WeekdayName(FALSE) }

Init ==
    /\ iter = [i |-> 0, off |-> 0]
    /\ fields = <<>>
    /\ anchor = <<>>
    /\ open_brace_position = 0
    /\ bit = <<>>
    /\ result = <<>>
    /\ when = <<>>
    /\ bits = <<>>
    /\ buf = <<>>
    /\ output = <<>>
    /\ \/ /\ input \in Inputs
          /\ dateFormat = <<>>
          /\ pc = "parse_format_string"
       \/ /\ input = <<>>
          /\ dateFormat \in { <<fs>> : fs \in SeqsUpTo(FieldValues, MaxFields) }
          /\ pc = "constructed"

(***************************************************************************)
(* parse_format_string: one action per arm of the loop's match.            *)
(***************************************************************************)
\* mutant: a Literal is pushed before every directive, pending run or not
PendingLiteral_always(to) ==
    <<Literal(slice(IF anchor # <<>> THEN anchor[1] ELSE to, to))>>

PendingLiteral(to) == IF anchor # <<>> THEN <<Literal(slice(anchor[1], to))>> ELSE <<>>

OpenBrace ==
    /\ pc = "parse_format_string"
    /\ HasNext(iter)
    /\ NextChar(iter) = "{"
    /\ fields' = fields \o PendingLiteral(NextPos(iter))
    /\ anchor' = <<>>
    /\ open_brace_position' = NextPos(iter)
    /\ bit' = <<>>
    /\ iter' = Advance(iter)
    /\ pc' = "parse_a_thing"
    /\ UNCHANGED <<input, result, dateFormat, when, bits, buf, output>>

StrayCloseBrace ==
    /\ pc = "parse_format_string"
    /\ HasNext(iter)
    /\ NextChar(iter) = "}"
    /\ result' = <<CloseCurlyBrace(NextPos(iter))>>
    /\ iter' = Advance(iter)
    /\ pc' = "returned"
    /\ UNCHANGED <<input, fields, anchor, open_brace_position, bit,
                   dateFormat, when, bits, buf, output>>

PlainChar ==
    /\ pc = "parse_format_string"
    /\ HasNext(iter)
    /\ NextChar(iter) \notin {"{", "}"}
    /\ anchor' = IF anchor = <<>> THEN <<NextPos(iter)>> ELSE anchor
    /\ iter' = Advance(iter)
    /\ UNCHANGED <<input, fields, open_brace_position, bit, result,
                   dateFormat, when, bits, buf, output, pc>>

\* mutant: the run pending at the end of the input is not pushed
FinalLiteral_dropped == <<>>

FinalLiteral == IF anchor # <<>> THEN <<Literal(slice_from(anchor[1]))>> ELSE <<>>

EndOfInput ==
    /\ pc = "parse_format_string"
    /\ ~HasNext(iter)
    /\ fields' = fields \o FinalLiteral
    /\ result' = <<Ok>>
    /\ dateFormat' = <<fields'>>
    /\ pc' = "returned"
    /\ UNCHANGED <<input, iter, anchor, open_brace_position, bit,
                   when, bits, buf, output>>

(***************************************************************************)
(* parse_a_thing: one action per arm of the loop's match, the ':' arm      *)
(* read together with the nested match on the character after it.          *)
(***************************************************************************)
\* mutant: the kind read after ':' is not kept
ColonKind_noBit ==
    /\ pc = "parse_a_thing"
    /\ HasNext(iter)
    /\ NextChar(iter) = ":"
    /\ HasNext(Advance(iter))
    /\ NextChar(Advance(iter)) \in Kinds
    /\ iter' = Advance(Advance(iter))
    /\ UNCHANGED <<input, fields, anchor, open_brace_position, bit, result,
                   dateFormat, when, bits, buf, output, pc>>

ColonKind ==
    /\ pc = "parse_a_thing"
    /\ HasNext(iter)
    /\ NextChar(iter) = ":"
    /\ HasNext(Advance(iter))
    /\ NextChar(Advance(iter)) \in Kinds
    /\ bit' = <<bitlet(NextChar(Advance(iter)))>>
    /\ iter' = Advance(Advance(iter))
    /\ UNCHANGED <<input, fields, anchor, open_brace_position, result,
                   dateFormat, when, bits, buf, output, pc>>

\* mutant: the position of the ':' instead of the character after it
ColonInvalidChar_colonPos ==
    /\ pc = "parse_a_thing"
    /\ HasNext(iter)
    /\ NextChar(iter) = ":"
    /\ HasNext(Advance(iter))
    /\ NextChar(Advance(iter)) \notin Kinds
    /\ result' = <<InvalidChar(NextChar(Advance(iter)), TRUE, NextPos(iter))>>
    /\ iter' = Advance(Advance(iter))
    /\ pc' = "returned"
    /\ UNCHANGED <<input, fields, anchor, open_brace_position, bit,
                   dateFormat, when, bits, buf, output>>

ColonInvalidChar ==
    /\ pc = "parse_a_thing"
    /\ HasNext(iter)
    /\ NextChar(iter) = ":"
    /\ HasNext(Advance(iter))
    /\ NextChar(Advance(iter)) \notin Kinds
    /\ result' = <<InvalidChar(NextChar(Advance(iter)), TRUE, NextPos(Advance(iter)))>>
    /\ iter' = Advance(Advance(iter))
    /\ pc' = "returned"
    /\ UNCHANGED <<input, fields, anchor, open_brace_position, bit,
                   dateFormat, when, bits, buf, output>>

\* mutant: the position of the ':' instead of the opening brace
ColonEndOfInput_colonPos ==
    /\ pc = "parse_a_thing"
    /\ HasNext(iter)
    /\ NextChar(iter) = ":"
    /\ ~HasNext(Advance(iter))
    /\ result' = <<OpenCurlyBrace(NextPos(iter))>>
    /\ iter' = Advance(iter)
    /\ pc' = "returned"
    /\ UNCHANGED <<input, fields, anchor, open_brace_position, bit,
                   dateFormat, when, bits, buf, output>>

ColonEndOfInput ==
    /\ pc = "parse_a_thing"
    /\ HasNext(iter)
    /\ NextChar(iter) = ":"
    /\ ~HasNext(Advance(iter))
    /\ result' = <<OpenCurlyBrace(open_brace_position)>>
    /\ iter' = Advance(iter)
    /\ pc' = "returned"
    /\ UNCHANGED <<input, fields, anchor, open_brace_position, bit,
                   dateFormat, when, bits, buf, output>>

CloseBraceField ==
    /\ pc = "parse_a_thing"
    /\ HasNext(iter)
    /\ NextChar(iter) = "}"
    /\ bit # <<>>
    /\ fields' = fields \o <<bit[1]>>
    /\ iter' = Advance(iter)
    /\ pc' = "parse_format_string"
    /\ UNCHANGED <<input, anchor, open_brace_position, bit, result,
                   dateFormat, when, bits, buf, output>>

CloseBraceMissingField ==
    /\ pc = "parse_a_thing"
    /\ HasNext(iter)
    /\ NextChar(iter) = "}"
    /\ bit = <<>>
    /\ result' = <<MissingField(open_brace_position)>>
    /\ iter' = Advance(iter)
    /\ pc' = "returned"
    /\ UNCHANGED <<input, fields, anchor, open_brace_position, bit,
                   dateFormat, when, bits, buf, output>>

ThingInvalidChar ==
    /\ pc = "parse_a_thing"
    /\ HasNext(iter)
    /\ NextChar(iter) \notin {":", "}"}
    /\ result' = <<InvalidChar(NextChar(iter), FALSE, NextPos(iter))>>
    /\ iter' = Advance(iter)
    /\ pc' = "returned"
    /\ UNCHANGED <<input, fields, anchor, open_brace_position, bit,
                   dateFormat, when, bits, buf, output>>

ThingEndOfInput ==
    /\ pc = "parse_a_thing"
    /\ ~HasNext(iter)
    /\ result' = <<OpenCurlyBrace(open_brace_position)>>
    /\ pc' = "returned"
    /\ UNCHANGED <<input, iter, fields, anchor, open_brace_position, bit,
                   dateFormat, when, bits, buf, output>>

(***************************************************************************)
(* DateFormat::format: the call, one step per field, and the return.       *)
(***************************************************************************)
FormatCall ==
    /\ \/ pc = "constructed"
       \/ pc = "returned" /\ result = <<Ok>>
    /\ \E date \in Dates : when' = <<date>>
    /\ bits' = dateFormat[1]
    /\ buf' = <<>>
    /\ pc' = "format"
    /\ UNCHANGED <<input, iter, fields, anchor, open_brace_position, bit,
                   result, dateFormat, output>>

FormatBit ==
    /\ pc = "format"
    /\ bits # <<>>
    /\ buf' = buf \o Field_format(Head(bits), when[1])
    /\ bits' = Tail(bits)
    /\ UNCHANGED <<input, iter, fields, anchor, open_brace_position, bit,
                   result, dateFormat, when, output, pc>>

FormatReturn ==
    /\ pc = "format"
    /\ bits = <<>>
    /\ output' = IF from_utf8(buf) THEN <<buf>> ELSE <<>>
    /\ pc' = IF from_utf8(buf) THEN "formatted" ELSE "panicked"
    /\ UNCHANGED <<input, iter, fields, anchor, open_brace_position, bit,
                   result, dateFormat, when, bits, buf>>

Next ==
    \/ OpenBrace
    \/ StrayCloseBrace
    \/ PlainChar
    \/ EndOfInput
    \/ ColonKind
    \/ ColonInvalidChar
    \/ ColonEndOfInput
    \/ CloseBraceField
    \/ CloseBraceMissingField
    \/ ThingInvalidChar
    \/ ThingEndOfInput
    \/ FormatCall
    \/ FormatBit
    \/ FormatReturn

Spec == Init /\ [][Next]_vars

(***************************************************************************)
(* The grammar the properties are stated in, over character sequences.     *)
(* PosOf(s, k) is the byte offset of the k-th character of s.              *)
(***************************************************************************)
PosOf(s, k) == Len(Bytes(SubSeq(s, 1, k - 1)))
Before(s, k) == SubSeq(s, 1, k - 1)
After(s, k) == SubSeq(s, k + 1, Len(s))
Drop(s, n) == SubSeq(s, n + 1, Len(s))
IsText(c) == c \notin {"{", "}"}
Returned == pc = "returned"

\* ':' followed by a kind letter, any number of times
RECURSIVE KindPairs(_)
KindPairs(s) ==
    \/ s = <<>>
    \/ Len(s) >= 2 /\ s[1] = ":" /\ s[2] \in Kinds /\ KindPairs(Drop(s, 2))

\* the rest of an input that ends inside a directive, after its '{'
OpenTail(s) ==
    \/ KindPairs(s)
    \/ s # <<>> /\ s[Len(s)] = ":" /\ KindPairs(SubSeq(s, 1, Len(s) - 1))

\* text characters and closed directives that the scan passes without error
RECURSIVE Complete(_), ClosedBody(_)
Complete(s) ==
    \/ s = <<>>
    \/ s # <<>> /\ IsText(s[1]) /\ Complete(Tail(s))
    \/ s # <<>> /\ s[1] = "{" /\ ClosedBody(Tail(s))
ClosedBody(s) ==
    /\ Len(s) >= 3
    /\ s[1] = ":"
    /\ s[2] \in Kinds
    /\ \/ s[3] = "}" /\ Complete(Drop(s, 3))
       \/ ClosedBody(Drop(s, 2))

\* brace-free text runs and directives '{:X}' only
RECURSIVE WellFormed(_)
WellFormed(s) ==
    \/ s = <<>>
    \/ s # <<>> /\ IsText(s[1]) /\ WellFormed(Tail(s))
    \/ /\ Len(s) >= 4
       /\ s[1] = "{" /\ s[2] = ":" /\ s[3] \in Kinds /\ s[4] = "}"
       /\ WellFormed(Drop(s, 4))

RECURSIVE RunLength(_)
RunLength(s) == IF s = <<>> \/ ~IsText(s[1]) THEN 0 ELSE 1 + RunLength(Tail(s))

DirectiveField(x) ==
    CASE x = "Y" -> [tag |-> "Year"]
      [] x = "y" -> [tag |-> "YearOfCentury"]
      [] x = "M" -> [tag |-> "MonthName", long |-> TRUE]
      [] x = "D" -> [tag |-> "Day"]
      [] x = "E" -> [tag |-> "WeekdayName", long |-> TRUE]

\* one field per directive and one Literal per maximal brace-free run
RECURSIVE ExpectedFields(_)
ExpectedFields(s) ==
    IF s = <<>> THEN <<>>
    ELSE IF s[1] = "{" THEN <<DirectiveField(s[3])>> \o ExpectedFields(Drop(s, 4))
    ELSE <<[tag |-> "Literal", s |-> Bytes(SubSeq(s, 1, RunLength(s)))]>>
             \o ExpectedFields(Drop(s, RunLength(s)))

IsLiteral(f) == f.tag = "Literal"
NumLiterals(fs) == Cardinality({ i \in 1..Len(fs) : IsLiteral(fs[i]) })

(***************************************************************************)
(* C1: an input made only of brace-free text runs and directives '{:X}',   *)
(* X in {Y, y, M, D, E}, parses successfully to one field per directive    *)
(* (Y->Year, y->YearOfCentury, M->MonthName(true), D->Day,                 *)
(* E->WeekdayName(true)) and one Literal per maximal brace-free run, with  *)
(* the run as its text, in input order.                                    *)
(***************************************************************************)
C1_WellFormedParses ==
    (Returned /\ WellFormed(input)) =>
        /\ result = <<Ok>>
        /\ dateFormat = <<ExpectedFields(input)>>

C1_Witness ==
    /\ Returned
    /\ WellFormed(input)
    /\ result = <<Ok>>
    /\ Len(dateFormat[1]) = 4
    /\ NumLiterals(dateFormat[1]) = 2
    /\ \E i \in 1..4 : dateFormat[1][i] = Day
    /\ \E i \in 1..4 : dateFormat[1][i] = Literal(<<"C3", "A9">>)

(***************************************************************************)
(* C2: in the fields of a successful parse every Literal is non-empty,     *)
(* contains neither '{' nor '}', and is not followed by another Literal.   *)
(***************************************************************************)
C2_LiteralsCoalesced ==
    (Returned /\ result = <<Ok>>) =>
        \A i \in 1..Len(dateFormat[1]) :
            IsLiteral(dateFormat[1][i]) =>
                /\ dateFormat[1][i].s # <<>>
                /\ \A j \in 1..Len(dateFormat[1][i].s) :
                       dateFormat[1][i].s[j] \notin {"{", "}"}
                /\ i < Len(dateFormat[1]) => ~IsLiteral(dateFormat[1][i + 1])

C2_Witness ==
    /\ Returned
    /\ result = <<Ok>>
    /\ Len(dateFormat[1]) = 3
    /\ IsLiteral(dateFormat[1][1])
    /\ Len(dateFormat[1][1].s) >= 2
    /\ ~IsLiteral(dateFormat[1][2])
    /\ IsLiteral(dateFormat[1][3])

(***************************************************************************)
(* C3: after the kind letter of a directive only '}' is accepted: any      *)
(* other character there gives InvalidChar, end of input there gives       *)
(* OpenCurlyBrace, so a successful parse has only '{:X}' directives.       *)
(***************************************************************************)
C3_KindLetterThenCloseBrace ==
    Returned =>
        /\ \A k \in 1..Len(input) :
              ( /\ input[k] = "{"
                /\ WellFormed(Before(input, k))
                /\ Len(input) >= k + 2
                /\ input[k + 1] = ":"
                /\ input[k + 2] \in Kinds ) =>
                    /\ Len(input) = k + 2 =>
                           result = <<OpenCurlyBrace(PosOf(input, k))>>
                    /\ (Len(input) > k + 2 /\ input[k + 3] # "}") =>
                           result[1].tag = "InvalidChar"
        /\ result = <<Ok>> => WellFormed(input)

(***************************************************************************)
(* C4: a '}' at byte offset p that follows only complete literal runs and  *)
(* complete directives gives CloseCurlyBrace(p), whatever follows it, and  *)
(* no Literal ever contains a '}'.                                         *)
(***************************************************************************)
C4_StrayCloseBrace ==
    /\ Returned =>
          \A k \in 1..Len(input) :
              (input[k] = "}" /\ Complete(Before(input, k))) =>
                  result = <<CloseCurlyBrace(PosOf(input, k))>>
    /\ \A i \in 1..Len(fields) :
          IsLiteral(fields[i]) =>
              \A j \in 1..Len(fields[i].s) : fields[i].s[j] # "}"

C4_Witness ==
    /\ Returned
    /\ result[1].tag = "CloseCurlyBrace"
    /\ \E k \in 1..Len(input) :
          /\ input[k] = "}"
          /\ PosOf(input, k) = result[1].pos
          /\ PosOf(input, k) > k - 1
          /\ k < Len(input)
          /\ Len(fields) >= 1
          /\ anchor # <<>>

(***************************************************************************)
(* C5: the result is OpenCurlyBrace(p) exactly when the scan reaches the   *)
(* end of the input without error inside a directive whose '{' is at byte  *)
(* offset p: right after '{', right after ':' or right after a kind        *)
(* letter.  Then the character at p is '{' and no '}' occurs after p.      *)
(***************************************************************************)
EndsInsideDirective(s, k) ==
    /\ s[k] = "{"
    /\ Complete(Before(s, k))
    /\ OpenTail(After(s, k))

C5_OpenCurlyBrace ==
    Returned =>
        /\ \A k \in 1..Len(input) :
              EndsInsideDirective(input, k) =>
                  result = <<OpenCurlyBrace(PosOf(input, k))>>
        /\ result[1].tag = "OpenCurlyBrace" =>
              \E k \in 1..Len(input) :
                  /\ PosOf(input, k) = result[1].pos
                  /\ EndsInsideDirective(input, k)
                  /\ \A j \in (k + 1)..Len(input) : input[j] # "}"
                  /\ \/ Len(input) = k
                     \/ input[Len(input)] = ":"
                     \/ input[Len(input)] \in Kinds /\ input[Len(input) - 1] = ":"

C5_Witness ==
    /\ Returned
    /\ result[1].tag = "OpenCurlyBrace"
    /\ result[1].pos >= 3
    /\ \E k \in 1..Len(input) :
          /\ PosOf(input, k) = result[1].pos
          /\ PosOf(input, k) > k - 1
          /\ input[Len(input)] \in Kinds

(***************************************************************************)
(* C6: InvalidChar(c, afterColon, q) carries the character c at byte       *)
(* offset q inside a directive, and afterColon is true exactly when the    *)
(* character before q is ':'.  A character after a directive's ':' that is *)
(* not a kind letter gives InvalidChar(c, true, q); a character other than *)
(* ':' and '}' where ':' or '}' is expected gives InvalidChar(c, false, q).*)
(***************************************************************************)
C6_InvalidChar ==
    Returned =>
        /\ result[1].tag = "InvalidChar" =>
              \E k \in 2..Len(input) :
                  /\ PosOf(input, k) = result[1].pos
                  /\ input[k] = result[1].c
                  /\ result[1].afterColon <=> input[k - 1] = ":"
                  /\ \E j \in 1..(k - 1) :
                         /\ input[j] = "{"
                         /\ Complete(Before(input, j))
                         /\ \A m \in (j + 1)..(k - 1) : input[m] \notin {"{", "}"}
        /\ \A j \in 1..Len(input) : \A k \in (j + 1)..Len(input) :
              (input[j] = "{" /\ Complete(Before(input, j))) =>
                  /\ ( /\ k >= j + 2
                       /\ KindPairs(SubSeq(input, j + 1, k - 2))
                       /\ input[k - 1] = ":"
                       /\ input[k] \notin Kinds ) =>
                           result = <<InvalidChar(input[k], TRUE, PosOf(input, k))>>
                  /\ ( /\ KindPairs(SubSeq(input, j + 1, k - 1))
                       /\ input[k] \notin {":", "}"} ) =>
                           result = <<InvalidChar(input[k], FALSE, PosOf(input, k))>>

C6_Witness ==
    /\ Returned
    /\ result[1].tag = "InvalidChar"
    /\ result[1].afterColon
    /\ result[1].c = "}"
    /\ result[1].pos >= 4
    /\ \E k \in 2..Len(input) : PosOf(input, k) = result[1].pos /\ PosOf(input, k) > k - 1

(***************************************************************************)
(* C7: the result is MissingField(p) exactly when the scan reaches without *)
(* error a '{' at byte offset p that is immediately followed by '}'; a     *)
(* directive in which a ':' was read never gives MissingField.             *)
(***************************************************************************)
EmptyDirectiveAt(s, k) ==
    /\ k < Len(s)
    /\ s[k] = "{"
    /\ s[k + 1] = "}"
    /\ Complete(Before(s, k))

C7_MissingField ==
    Returned =>
        /\ \A k \in 1..Len(input) :
              EmptyDirectiveAt(input, k) => result = <<MissingField(PosOf(input, k))>>
        /\ result[1].tag = "MissingField" =>
              \E k \in 1..Len(input) :
                  /\ PosOf(input, k) = result[1].pos
                  /\ EmptyDirectiveAt(input, k)

C7_Witness ==
    /\ Returned
    /\ result[1].tag = "MissingField"
    /\ result[1].pos >= 5
    /\ Len(fields) >= 2
    /\ \E k \in 1..Len(input) : PosOf(input, k) = result[1].pos /\ PosOf(input, k) > k - 1

(***************************************************************************)
(* C8: an input without '{' parses to the single field Literal(input),     *)
(* and formatting that result gives the input back for every date.         *)
(***************************************************************************)
NoOpenBrace(s) == \A k \in 1..Len(s) : s[k] # "{"
NoBrace(s) == \A k \in 1..Len(s) : IsText(s[k])
ParsedThenFormatted == pc = "formatted" /\ result = <<Ok>>

C8_LiteralPassthrough ==
    /\ (Returned /\ NoOpenBrace(input)) =>
          /\ result = <<Ok>>
          /\ dateFormat = << <<[tag |-> "Literal", s |-> Bytes(input)]>> >>
    /\ (ParsedThenFormatted /\ NoOpenBrace(input)) => output = <<Bytes(input)>>

\* amended: the input is non-empty and has no '}' either
C8_LiteralPassthroughAmended ==
    /\ (Returned /\ input # <<>> /\ NoBrace(input)) =>
          /\ result = <<Ok>>
          /\ dateFormat = << <<[tag |-> "Literal", s |-> Bytes(input)]>> >>
    /\ (ParsedThenFormatted /\ input # <<>> /\ NoBrace(input)) =>
          output = <<Bytes(input)>>

C8_Witness ==
    /\ ParsedThenFormatted
    /\ NoBrace(input)
    /\ Len(input) >= 3
    /\ \E k \in 1..Len(input) : input[k] = "U+E9"
    /\ \E k \in 1..Len(input) : input[k] = ":"
    /\ output = <<Bytes(input)>>

(***************************************************************************)
(* C9: format never fails, and its output is the concatenation, in         *)
(* sequence order, of the rendering of each field against the date:        *)
(* Literal(s) -> s, Year -> the year, YearOfCentury -> the year of the     *)
(* century, Day -> the day of the month, MonthName and WeekdayName -> the  *)
(* long or the short name of the date's month or weekday.                  *)
(***************************************************************************)
Rendering(f, date) ==
    CASE f.tag = "Literal"       -> f.s
      [] f.tag = "Year"          -> Display(date.year)
      [] f.tag = "YearOfCentury" -> Display(date.year % 100)
      [] f.tag = "Day"           -> Display(date.day)
      [] f.tag = "MonthName" /\ f.long    -> long_month_name(date.month)
      [] f.tag = "MonthName" /\ ~f.long   -> short_month_name(date.month)
      [] f.tag = "WeekdayName" /\ f.long  -> long_day_name(date.weekday)
      [] f.tag = "WeekdayName" /\ ~f.long -> short_day_name(date.weekday)

RECURSIVE Concatenation(_, _)
Concatenation(fs, date) ==
    IF fs = <<>> THEN <<>>
    ELSE Rendering(Head(fs), date) \o Concatenation(Tail(fs), date)

C9_FormatConcatenates ==
    /\ pc # "panicked"
    /\ pc = "format" =>
          buf = Concatenation(
                    SubSeq(dateFormat[1], 1, Len(dateFormat[1]) - Len(bits)), when[1])
    /\ pc = "formatted" => output = <<Concatenation(dateFormat[1], when[1])>>

C9_Witness ==
    /\ pc = "formatted"
    /\ result = <<>>
    /\ Len(dateFormat[1]) = 3
    /\ dateFormat[1][1] = MonthName(TRUE)
    /\ dateFormat[1][2] = Literal(<<"C3", "A9">>)
    /\ dateFormat[1][3] = YearOfCentury
    /\ when[1].year = 2000
    /\ output = << <<"D", "e", "c", "e", "m", "b", "e", "r", "C3", "A9", "0">> >>

(***************************************************************************)
(* C10: every MonthName or WeekdayName field of a parse result carries the *)
(* flag true, so parse followed by format never writes a short name.       *)
(***************************************************************************)
C10_ParseOnlyLongNames ==
    result = <<Ok>> =>
        /\ \A i \in 1..Len(dateFormat[1]) :
              dateFormat[1][i].tag \in {"MonthName", "WeekdayName"} =>
                  dateFormat[1][i].long
        /\ \A i \in 1..Len(bits) :
              bits[i].tag \in {"MonthName", "WeekdayName"} => bits[i].long

C10_Witness ==
    /\ ParsedThenFormatted
    /\ \E i \in 1..Len(dateFormat[1]) : dateFormat[1][i].tag = "MonthName"
    /\ \E i \in 1..Len(dateFormat[1]) : dateFormat[1][i].tag = "WeekdayName"
    /\ when[1].month = "March"

====
